---- MODULE Spec2Model ----
(***************************************************************************)
(* Model of the collector-common-api library:                              *)
(*   - ApiCollectorClient.requestWithRetry / request / requestAndParse     *)
(*     (src/src/api/apiCollectorClient.ts, retrying revision, lines 1-208) *)
(*   - the static Logger singleton (src/src/logger.ts)                     *)
(*   - CloudUploadClientCollection (src/src/cloud/                         *)
(*     cloudUploadClientCollection.ts)                                     *)
(*   - exportData (src/src/utils/data.utils.ts)                            *)
(*   - CloudUploadClient and its descriptor schema (src/unnamed/part_015), *)
(*     AWS3UploadClient (src/src/cloud/clients/aws3UploadClient.ts)        *)
(*   - the options object of ApiCollectorClient.request                    *)
(***************************************************************************)
EXTENDS Integers, Sequences, FiniteSets, TLC

(***************************************************************************)
(* Bounds of the model                                                     *)
(***************************************************************************)
\* largest explicit `retries` argument tried besides the default
MaxRetries == 3
\* largest number of validation issues a schema reports for one payload
MaxIssues == 2
\* number of distinct upload client instances
NumTargets == 2
\* largest length of the managed #clients array
MaxClients == 2
\* largest number of data sources in one exportData call
MaxEntries == 2
\* nodes (primitives, arrays and objects) of a value handed to isValidData
MaxNodes == 4
\* request calls in flight on one client at the same time
NumCalls == 2

(***************************************************************************)
(* Program constants                                                       *)
(***************************************************************************)
\* const MAX_RETRIES = 10
MAX_RETRIES == 10
\* requestWithRetry(config, retries = MAX_RETRIES, delayMs = 1000)
DEFAULT_DELAY_MS == 1000
\* const delay = 500 * 2 ** config.__retryCount (base delay of retryOrThrow)
INTERCEPTOR_DELAY_MS == 500
\* err.response?.status when the error carries no response (undefined is
\* falsy in `status && ...`, as is 0)
NoStatus == 0

\* HTTP statuses a transport attempt can end with
Statuses == {200, 204, 302, 400, 401, 404, 429, 500, 503}
\* statuses an axios rejection can carry: axios' default validateStatus
\* rejects every status outside [200,300); NoStatus is a network failure
RejectStatuses == {s \in Statuses : s < 200 \/ s >= 300} \cup {NoStatus}
Endpoints == {"users", "nodes"}
\* arguments of requestWithRetry: request passes the defaults (MAX_RETRIES and
\* DEFAULT_DELAY_MS); the other values exercise the two parameters
RetriesInputs == (0..MaxRetries) \cup {MAX_RETRIES}
DelayInputs == {DEFAULT_DELAY_MS, INTERCEPTOR_DELAY_MS}

Targets == 1..NumTargets
Payloads == {"p1", "p2"}
Descriptors == {"d1", "d2"}

\* an optional property that is not set (undefined)
Absent == "<undefined>"

\* CloudUploadOpts: the upload descriptor
Desc(filePath, serviceLocation, siteName, serviceName, dataSourceName, filename) ==
    [filePath |-> filePath, serviceLocation |-> serviceLocation, siteName |-> siteName,
     serviceName |-> serviceName, dataSourceName |-> dataSourceName, filename |-> filename]

\* export const ServiceLocation = ["site","global"] as const
ServiceLocation == {"site", "global"}

\* the descriptors tried: every field set or not, filePath also set to ""
DescriptorInputs ==
    {Desc(fp, sl, sn, sv, ds, fn) :
        fp \in {Absent, "", "/x"}, sl \in ServiceLocation \cup {Absent},
        sn \in {Absent, "lab"}, sv \in {Absent, "svc"},
        ds \in {Absent, "old"}, fn \in {Absent, "f.json"}}

\* the keys of theData, in insertion order
SourceNames == <<"nodes", "storage", "users", "devices">>

\* NodeEnv values tried: isProduction = (nodeEnv === "production")
NodeEnvs == {"production", "development", "test"}

\* what one value of theData is: empty per isValidData, serializable, or
\* accepted by isValidData but refused by the serializer (a BigInt or a
\* cycle for JSON.stringify, a non-array for toNDJSON)
EntryKinds == {"empty", "json", "unserializable"}

\* the upload options handed to exportData
UploadOptsInputs ==
    {Desc(Absent, "global", Absent, "svc", Absent, Absent),
     Desc(Absent, "site", "lab", "svc", "old", Absent)}

VARIABLES
    loggerReady,  \* Logger._logger has been created (Logger.CreateLogger)
    req,          \* the state of one request / requestAndParse call
    clients,      \* CloudUploadClientCollection.#clients
    up,           \* the state of one CloudUploadClientCollection.upload call
    received,     \* per target: the uploadFile calls it has received
    s3Client,     \* per target: AWS3UploadClient.#s3Client is not null
    disc,         \* the last CloudUploadClientCollection.DisconnectClients call
    ex,           \* the state of one exportData call
    uf,           \* the state of one CloudUploadClient.uploadFile call
    val,          \* the last CloudUploadClient.safeValidateUploadOpts call
    out,          \* the options object the last request built for axios
    released,     \* per target: the S3Client.destroy() calls that returned
    dcall,        \* the last call of a client's own Disconnect()
    cfg,          \* the configuration singleton and the process that holds it
    vd,           \* the last isValidData call: its argument and what it returned
    conc          \* one client and the request calls in flight on it

vars == <<loggerReady, req, clients, up, received, s3Client, disc, ex, uf, val, out, released, dcall, cfg, vd, conc>>

(***************************************************************************)
(* Values: responses and errors                                            *)
(***************************************************************************)
Val(kind, status, id, route, issues) ==
    [kind |-> kind, status |-> status, id |-> id, route |-> route, issues |-> issues]

\* no value (JavaScript undefined)
Undefined == Val("undefined", NoStatus, 0, "", 0)
\* the error axios rejects with at attempt number id
AxiosError(status, id) == Val("axiosError", status, id, "", 0)
\* the response axios resolves with at attempt number id
Response(status, id) == Val("response", status, id, "", 0)
\* new InvalidAPIResponseError(endpoint, `HTTP ${status} - ${statusText}`)
InvalidAPIResponseError(route, status) == Val("invalidApiResponse", status, 0, route, 0)
\* the ZodError schema.parse throws, carrying every issue
ZodError(issues) == Val("zodError", NoStatus, 0, "", issues)
\* the value schema.parse returns
Parsed(id) == Val("parsed", NoStatus, id, "", 0)
\* TypeError of `this._logger.http(...)` while Logger._logger is undefined
LoggerTypeError == Val("typeError", NoStatus, 0, "", 0)

NoResult == [tag |-> "none", val |-> Undefined]
Return(v) == [tag |-> "return", val |-> v]
Throw(v) == [tag |-> "throw", val |-> v]

(***************************************************************************)
(* Logger (static singleton)                                               *)
(***************************************************************************)
\* Logger.http / Logger.error: `this._logger.http(message)` throws a
\* TypeError while Logger._logger is undefined
LogThrows(ready) == ~ready

\* Logger.CreateLogger: returns null when the logger exists, else creates it
CreateLogger ==
    /\ loggerReady' = (IF loggerReady THEN loggerReady ELSE TRUE)
    /\ UNCHANGED <<req, clients, up, received, s3Client, disc, ex, uf, val, out, released, dcall, cfg, vd, conc>>

(***************************************************************************)
(* ApiCollectorClient: the retry policy of requestWithRetry                *)
(***************************************************************************)
\* if (status === 400 || status === 404) throw err
FailFast(status) == status = 400 \/ status = 404

ShouldThrowNo429(attempt, retries, status) ==
    attempt = retries \/ (status # NoStatus /\ status < 500)

ShouldThrowRetryClientErrors(attempt, retries, status) ==
    attempt = retries

ShouldThrowNeverExhausts(attempt, retries, status) ==
    status # NoStatus /\ status < 500 /\ status # 429

\* if (attempt === retries || (status && status < 500 && status !== 429)) throw err
ShouldThrow(attempt, retries, status) ==
    attempt = retries \/ (status # NoStatus /\ status < 500 /\ status # 429)

BackoffDelayShifted(delayMs, attempt) == delayMs * 2^(attempt + 1)

BackoffDelayLinear(delayMs, attempt) == delayMs * 2 * attempt

\* setTimeout(res, delayMs * 2 ** attempt)
BackoffDelay(delayMs, attempt) == delayMs * 2^attempt

ThrownErrorStale(err, lastError) == lastError

ThrownErrorNone(err, lastError) == Undefined

\* `throw err` in the catch block: the error of the current attempt
ThrownError(err, lastError) == err

IsSuccessStatusExclusive(status) == status > 200 /\ status < 300

IsSuccessStatusLax(status) == status >= 200 /\ status < 400

\* response.status >= 200 && response.status < 300
IsSuccessStatus(status) == status >= 200 /\ status < 300

\* the log line of one attempt: `[method] url` for the first attempt,
\* `(retry attempt/retries) [method] url` for the later ones
AttemptLine(attempt) ==
    [level |-> "http", kind |-> IF attempt = 1 THEN "attempt" ELSE "retry", n |-> attempt]

\* the log line of the terminal response
FinalLine(level) == [level |-> level, kind |-> "final", n |-> 0]

(***************************************************************************)
(* The state of one request call                                           *)
(***************************************************************************)
NoOutcome == [kind |-> "none", status |-> NoStatus]

IdleRequest ==
    [pc |-> "idle", parse |-> FALSE, endpoint |-> "", retries |-> 0, delayMs |-> 0,
     attempt |-> 0, calls |-> 0, delays |-> <<>>, lastError |-> Undefined,
     first |-> NoOutcome, last |-> NoOutcome, allRetryable |-> TRUE,
     issues |-> 0, result |-> NoResult, lines |-> <<>>]

\* the call ends: the promise of request / requestAndParse settles
Settle(r, result) == [r EXCEPT !.pc = "done", !.result = result]

\* head of `for (let attempt = 1; attempt <= retries; attempt++)` up to the
\* await of axios(config): the loop test, the log line, the transport call;
\* after the loop `throw lastError`
LoopHead(r, ready) ==
    IF r.attempt > r.retries
    THEN Settle(r, Throw(r.lastError))
    ELSE IF LogThrows(ready)
         THEN Settle(r, Throw(LoggerTypeError))
         ELSE [r EXCEPT !.pc = "axios",
                        !.calls = @ + 1,
                        !.lines = Append(@, AttemptLine(r.attempt))]

\* bookkeeping of the outcome of a transport attempt
Observe(r, kind, status, retryable) ==
    [r EXCEPT !.first = IF r.calls = 1 THEN [kind |-> kind, status |-> status] ELSE @,
              !.last = [kind |-> kind, status |-> status],
              !.allRetryable = @ /\ retryable]

\* schema.parse(data) of requestAndParse: returns the parsed value or throws
\* the ZodError holding every issue
SchemaParse(r, id, issues) ==
    LET r1 == [r EXCEPT !.issues = issues]
    IN  IF issues = 0 THEN Settle(r1, Return(Parsed(id))) ELSE Settle(r1, Throw(ZodError(issues)))

\* request after `await this.requestWithRetry(options)` returned `response`
\* (never a falsy value, so `return null` is not taken), then requestAndParse
\* after `await this.request(...)`
AfterResponse(r, ready, status, issues) ==
    IF LogThrows(ready)
    THEN Settle(r, Throw(LoggerTypeError))
    ELSE IF IsSuccessStatus(status)
         THEN LET r1 == [r EXCEPT !.lines = Append(@, FinalLine("http"))]
              IN  IF r.parse
                  THEN SchemaParse(r1, r.attempt, issues)
                  ELSE Settle(r1, Return(Response(status, r.attempt)))
         ELSE Settle([r EXCEPT !.lines = Append(@, FinalLine("error"))],
                     Throw(InvalidAPIResponseError(r.endpoint, status)))

\* the catch block of requestWithRetry for the error `err` with `status`
AfterError(r, status) ==
    LET err == AxiosError(status, r.attempt)
    IN  IF FailFast(status)
        THEN Settle(r, Throw(ThrownError(err, r.lastError)))
        ELSE IF ShouldThrow(r.attempt, r.retries, status)
             THEN Settle(r, Throw(ThrownError(err, r.lastError)))
             ELSE [r EXCEPT !.pc = "sleep",
                            !.lastError = err,
                            !.delays = Append(@, BackoffDelay(r.delayMs, r.attempt))]

\* statuses the retry policy is documented to retry on
Retryable(status) == status = NoStatus \/ status >= 500 \/ status = 429

(***************************************************************************)
(* ApiCollectorClient: actions                                             *)
(***************************************************************************)
NewRequest(parse, endpoint, retries, delayMs) ==
    [IdleRequest EXCEPT !.parse = parse, !.endpoint = endpoint,
                        !.retries = retries, !.delayMs = delayMs, !.attempt = 1]

\* request(method, endpoint, opts) -> requestWithRetry(options, retries, delayMs)
StartRequest ==
    /\ req.pc = "idle"
    /\ \E endpoint \in Endpoints, retries \in RetriesInputs, delayMs \in DelayInputs :
          req' = LoopHead(NewRequest(FALSE, endpoint, retries, delayMs), loggerReady)
    /\ UNCHANGED <<loggerReady, clients, up, received, s3Client, disc, ex, uf, val, out, released, dcall, cfg, vd, conc>>

\* requestAndParse(method, endpoint, schema, opts) -> request(...)
StartRequestAndParse ==
    /\ req.pc = "idle"
    /\ \E endpoint \in Endpoints, retries \in RetriesInputs, delayMs \in DelayInputs :
          req' = LoopHead(NewRequest(TRUE, endpoint, retries, delayMs), loggerReady)
    /\ UNCHANGED <<loggerReady, clients, up, received, s3Client, disc, ex, uf, val, out, released, dcall, cfg, vd, conc>>

\* axios(config) resolves with a response of some status; the payload has
\* `issues` validation issues against the schema of requestAndParse
AxiosResolve ==
    /\ req.pc = "axios"
    /\ \E status \in Statuses, issues \in 0..MaxIssues :
          req' = AfterResponse(Observe(req, "resolve", status, FALSE),
                               loggerReady, status, issues)
    /\ UNCHANGED <<loggerReady, clients, up, received, s3Client, disc, ex, uf, val, out, released, dcall, cfg, vd, conc>>

\* axios(config) rejects with an error carrying a status, or none
AxiosReject ==
    /\ req.pc = "axios"
    /\ \E status \in RejectStatuses :
          req' = AfterError(Observe(req, "reject", status, Retryable(status)), status)
    /\ UNCHANGED <<loggerReady, clients, up, received, s3Client, disc, ex, uf, val, out, released, dcall, cfg, vd, conc>>

\* the backoff timer fires: attempt++ and the next iteration of the loop
TimerFires ==
    /\ req.pc = "sleep"
    /\ req' = LoopHead([req EXCEPT !.attempt = @ + 1], loggerReady)
    /\ UNCHANGED <<loggerReady, clients, up, received, s3Client, disc, ex, uf, val, out, released, dcall, cfg, vd, conc>>

NextRequest ==
    \/ CreateLogger
    \/ StartRequest
    \/ StartRequestAndParse
    \/ AxiosResolve
    \/ AxiosReject
    \/ TimerFires

(***************************************************************************)
(* CloudUploadClientCollection                                             *)
(***************************************************************************)
\* number of entries of the array cs that are the client c
Occurrences(cs, c) == Len(SelectSeq(cs, LAMBDA x : x = c))

\* n copies of x
Repeat(x, n) == [i \in 1..n |-> x]

DispatchTargetsDropLast(cs) == IF Len(cs) > 1 THEN SubSeq(cs, 1, Len(cs) - 1) ELSE cs

\* this.#clients.map(client => client.uploadFile(data, opts)...): the array
\* the calls are dispatched to, one call per entry
DispatchTargets(cs) == cs

IdleUpload ==
    [pc |-> "idle", data |-> "", opts |-> "", managed |-> <<>>, snap |-> <<>>,
     conn |-> <<>>, st |-> <<>>]

\* Promise.all over the mapped promises: rejects as soon as one of them
\* rejects, resolves when all of them are fulfilled
PromiseAll(u) ==
    IF u.pc # "pending" THEN u
    ELSE IF \E i \in 1..Len(u.st) : u.st[i] = "rejected"
         THEN [u EXCEPT !.pc = "rejected"]
         ELSE IF \A i \in 1..Len(u.st) : u.st[i] \in {"fulfilled", "caught"}
              THEN [u EXCEPT !.pc = "resolved"]
              ELSE u

\* .catch((e) => Logger.error(`Failed to upload to ${client.name} - ...`)):
\* the handler fulfils the mapped promise unless Logger.error throws
CatchHandler(ready) == IF LogThrows(ready) THEN "rejected" ELSE "caught"

\* push = (client) => this.#clients.push(client)
Push ==
    /\ Len(clients) < MaxClients
    /\ \E c \in Targets : clients' = Append(clients, c)
    /\ UNCHANGED <<loggerReady, req, up, received, s3Client, disc, ex, uf, val, out, released, dcall, cfg, vd, conc>>

RemoveFirstOccurrence ==
    /\ \E c \in Targets :
          clients' = IF Occurrences(clients, c) = 0 THEN clients
                     ELSE LET i == CHOOSE k \in 1..Len(clients) :
                                       /\ clients[k] = c
                                       /\ \A j \in 1..(k - 1) : clients[j] # c
                          IN  SubSeq(clients, 1, i - 1) \o SubSeq(clients, i + 1, Len(clients))
    /\ UNCHANGED <<loggerReady, req, up, received, s3Client, disc, ex, uf, val, out, released, dcall, cfg, vd, conc>>

\* remove = (client) => this.#clients = this.#clients.filter(c => c != client)
Remove ==
    /\ \E c \in Targets : clients' = SelectSeq(clients, LAMBDA x : x # c)
    /\ UNCHANGED <<loggerReady, req, up, received, s3Client, disc, ex, uf, val, out, released, dcall, cfg, vd, conc>>

\* upload(data, opts): uploadFile is called on every entry synchronously,
\* then the call awaits Promise.all.  conn records whether the entry's
\* client still held its S3Client when uploadFile was called on it.
Upload ==
    /\ up.pc = "idle"
    /\ \E data \in Payloads, opts \in Descriptors :
          LET snap == DispatchTargets(clients)
              call == [data |-> data, opts |-> opts]
          IN  /\ received' = [t \in Targets |->
                                 received[t] \o Repeat(call, Occurrences(snap, t))]
              /\ up' = PromiseAll([pc |-> "pending", data |-> data, opts |-> opts,
                                   managed |-> clients, snap |-> snap,
                                   conn |-> [i \in 1..Len(snap) |-> s3Client[snap[i]]],
                                   st |-> Repeat("pending", Len(snap))])
    /\ UNCHANGED <<loggerReady, req, clients, s3Client, disc, ex, uf, val, out, released, dcall, cfg, vd, conc>>

\* the uploadFile promise of entry i fulfils; a client whose S3Client was
\* null when it was called threw at this.#s3Client!.send and cannot fulfil
UploadFileOk ==
    /\ \E i \in 1..Len(up.st) :
          /\ up.st[i] = "pending"
          /\ up.conn[i]
          /\ up' = PromiseAll([up EXCEPT !.st[i] = "fulfilled"])
    /\ UNCHANGED <<loggerReady, req, clients, received, s3Client, disc, ex, uf, val, out, released, dcall, cfg, vd, conc>>

\* the uploadFile promise of entry i rejects (validation, provider or
\* disconnected-client failure) and the catch handler runs
UploadFileFails ==
    /\ \E i \in 1..Len(up.st) :
          /\ up.st[i] = "pending"
          /\ up' = PromiseAll([up EXCEPT !.st[i] = CatchHandler(loggerReady)])
    /\ UNCHANGED <<loggerReady, req, clients, received, s3Client, disc, ex, uf, val, out, released, dcall, cfg, vd, conc>>

NextUpload ==
    \/ CreateLogger
    \/ Push
    \/ Remove
    \/ Upload
    \/ UploadFileOk
    \/ UploadFileFails

(***************************************************************************)
(* CloudUploadClientCollection.DisconnectClients and                       *)
(* AWS3UploadClient.Disconnect                                             *)
(***************************************************************************)
IdleDisconnect == [pc |-> "idle", snap |-> <<>>, called |-> <<>>, throwing |-> {}]

\* AWS3UploadClient.Disconnect: if (this.#s3Client) { destroy(); this.#s3Client = null }
\* A client that is already disconnected does nothing; destroy() is the
\* SDK's and either returns or throws (c \in throwing), and when it throws
\* the assignment of null is not reached.
DisconnectThrows(s3, c, throwing) == s3[c] /\ c \in throwing

DisconnectKeepsClient(s3, c, throwing) == s3

Disconnect(s3, c, throwing) ==
    IF DisconnectThrows(s3, c, throwing) THEN s3 ELSE [s3 EXCEPT ![c] = FALSE]

\* the number of destroy() calls one Disconnect() of c makes that return
Destroyed(s3, c, throwing) == IF s3[c] /\ c \notin throwing THEN 1 ELSE 0

\* this.#clients.forEach(client => { client.Disconnect(); Logger.debug(...) })
\* from entry i on: an exception of Disconnect or of Logger.debug leaves the
\* callback and forEach, so the entries after it are not visited
RECURSIVE DisconnectLoop(_, _, _, _, _, _, _)
DisconnectLoop(cs, i, throwing, ready, s3, called, rel) ==
    IF i > Len(cs)
    THEN [pc |-> "returned", called |-> called, s3 |-> s3, rel |-> rel]
    ELSE LET c == cs[i]
             now == Append(called, c)
             after == Disconnect(s3, c, throwing)
             relAfter == [rel EXCEPT ![c] = @ + Destroyed(s3, c, throwing)]
         IN  IF DisconnectThrows(s3, c, throwing) \/ LogThrows(ready)
             THEN [pc |-> "threw", called |-> now, s3 |-> after, rel |-> relAfter]
             ELSE DisconnectLoop(cs, i + 1, throwing, ready, after, now, relAfter)

\* DisconnectClients()
DisconnectClients ==
    /\ \E throwing \in SUBSET Targets :
          LET r == DisconnectLoop(clients, 1, throwing, loggerReady, s3Client, <<>>,
                                  released)
          IN  /\ disc' = [pc |-> r.pc, snap |-> clients, called |-> r.called,
                          throwing |-> throwing]
              /\ s3Client' = r.s3
              /\ released' = r.rel
    /\ UNCHANGED <<loggerReady, req, clients, up, received, ex, uf, val, out, dcall, cfg, vd, conc>>

NextDisconnect ==
    \/ CreateLogger
    \/ Push
    \/ Remove
    \/ DisconnectClients


(***************************************************************************)
(* exportData / exportDataToFile (src/src/utils/data.utils.ts)             *)
(***************************************************************************)
IdleExport ==
    [pc |-> "idle", hasLogger |-> FALSE, env |-> "",
     opts |-> Desc(Absent, Absent, Absent, Absent, Absent, Absent),
     entries |-> <<>>, visited |-> 0, warns |-> <<>>, uploads |-> <<>>,
     writes |-> <<>>, op |-> <<>>]

\* const opts = { ...uploadOpts, dataSourceName }
WithDataSourceName(uploadOpts, dataSourceName) ==
    [uploadOpts EXCEPT !.dataSourceName = dataSourceName]

\* isValidData(data) for the three kinds of value
IsValidData(kind) == kind # "empty"

\* JSON.stringify(data, null, 2) / Util.toNDJSON(data) throws
SerializeThrows(kind) == kind = "unserializable"

\* const isProduction = nodeEnv === "production"
IsProduction(nodeEnv) == nodeEnv = "production"

\* the callback of Object.entries(theData).map(...) for entry i, applied to
\* the state e of the call: it warns and returns for an empty value;
\* otherwise it serializes and either calls uploaders.upload or
\* fs.writeFile, whose promise it neither awaits nor returns. An exception
\* of the serializer leaves the callback and map.
RECURSIVE MapEntries(_, _)
MapEntries(e, i) ==
    IF i > Len(e.entries)
    THEN [e EXCEPT !.pc = "resolved"]
    ELSE LET v == [e EXCEPT !.visited = i]
         IN  IF ~IsValidData(e.entries[i])
             THEN MapEntries([v EXCEPT !.warns[i] = @ + 1], i + 1)
             ELSE IF SerializeThrows(e.entries[i])
                  THEN [v EXCEPT !.pc = "rejected"]
                  ELSE IF IsProduction(e.env)
                       THEN MapEntries(
                                [v EXCEPT !.uploads[i] =
                                      Append(@, WithDataSourceName(e.opts, SourceNames[i])),
                                  !.op[i] = "inflight"], i + 1)
                       ELSE MapEntries(
                                [v EXCEPT !.writes[i] = @ + 1, !.op[i] = "inflight"], i + 1)

\* exportData(uploaders, theData, nodeEnv, uploadOpts): LoggerFactory.GetLogger()
\* throws before any entry is looked at when no logger exists; the mapped
\* array holds no promise, so `await Promise.all(...)` resumes before any
\* file write or upload can complete
ExportData ==
    /\ ex.pc = "idle"
    /\ \E n \in 0..MaxEntries, env \in NodeEnvs, opts \in UploadOptsInputs :
       \E entries \in [1..n -> EntryKinds] :
          LET start == [pc |-> "running", hasLogger |-> loggerReady, env |-> env,
                        opts |-> opts, entries |-> entries, visited |-> 0,
                        warns |-> [i \in 1..n |-> 0],
                        uploads |-> [i \in 1..n |-> <<>>],
                        writes |-> [i \in 1..n |-> 0],
                        op |-> [i \in 1..n |-> "none"]]
          IN  ex' = IF LogThrows(loggerReady)
                    THEN [start EXCEPT !.pc = "rejected"]
                    ELSE MapEntries(start, 1)
    /\ UNCHANGED <<loggerReady, req, clients, up, received, s3Client, disc, uf, val, out, released, dcall, cfg, vd, conc>>

\* the promise of uploaders.upload or fs.writeFile of entry i settles
ExportOpSettles ==
    /\ \E i \in 1..Len(ex.op), outcome \in {"ok", "failed"} :
          /\ ex.op[i] = "inflight"
          /\ ex' = [ex EXCEPT !.op[i] = outcome]
    /\ UNCHANGED <<loggerReady, req, clients, up, received, s3Client, disc, uf, val, out, released, dcall, cfg, vd, conc>>

NextExport ==
    \/ CreateLogger
    \/ ExportData
    \/ ExportOpSettles

(***************************************************************************)
(* zCloudUploadClientOpts, CloudUploadClient.safeValidateUploadOpts and    *)
(* CloudUploadClient.uploadFile (src/unnamed/part_015),                    *)
(* AWS3UploadClient.upload (src/src/cloud/clients/aws3UploadClient.ts)     *)
(***************************************************************************)
\* JavaScript truthiness of an optional string: neither undefined nor ""
Truthy(x) == x # Absent /\ x # ""

\* an issue of the schema: the property path zod attaches to it and the
\* property its message names ("" where there is none)
Issue(path, subject) == [path |-> path, subject |-> subject]

\* z.object({ ..., serviceLocation: z.enum(ServiceLocation), ... }): every
\* property but serviceLocation is z.string().optional()
BaseIssues(d) ==
    IF d.serviceLocation \in ServiceLocation THEN {} ELSE {Issue("serviceLocation", "")}

NeedsSiteNameNever(d) == FALSE

\* data.serviceLocation === "site" && !data.siteName
NeedsSiteName(d) == d.serviceLocation = "site" /\ ~Truthy(d.siteName)

\* the body of superRefine after the logger was obtained: nothing is checked
\* when filePath is set; otherwise one { code: "custom", message } issue,
\* without a path, per message
RefineIssues(d) ==
    IF Truthy(d.filePath)
    THEN {}
    ELSE (IF ~Truthy(d.serviceName) THEN {Issue("", "serviceName")} ELSE {})
         \cup (IF ~Truthy(d.dataSourceName) THEN {Issue("", "dataSourceName")} ELSE {})
         \cup (IF ~Truthy(d.serviceLocation)
               THEN {Issue("", "serviceLocation")}
               ELSE IF NeedsSiteName(d) THEN {Issue("", "siteName")} ELSE {})

NoValidation == [pc |-> "idle", opts |-> Desc(Absent, Absent, Absent, Absent, Absent, Absent),
                 success |-> FALSE, issues |-> {}]

\* zCloudUploadClientOpts.safeParse(opts): zod runs the refinement only on an
\* object that passed the property schemas; the refinement starts with
\* LoggerFactory.GetLogger(), whose exception safeParse does not catch
SafeParse(d, ready) ==
    IF BaseIssues(d) # {}
    THEN [pc |-> "returned", opts |-> d, success |-> FALSE, issues |-> BaseIssues(d)]
    ELSE IF LogThrows(ready)
         THEN [pc |-> "threw", opts |-> d, success |-> FALSE, issues |-> {}]
         ELSE [pc |-> "returned", opts |-> d, success |-> RefineIssues(d) = {},
               issues |-> RefineIssues(d)]

\* static safeValidateUploadOpts = (opts) => zCloudUploadClientOpts.safeParse(opts).success
SafeValidateUploadOpts ==
    /\ \E d \in DescriptorInputs : val' = SafeParse(d, loggerReady)
    /\ UNCHANGED <<loggerReady, req, clients, up, received, s3Client, disc, ex, uf, out, released, dcall, cfg, vd, conc>>

NextValidate ==
    \/ CreateLogger
    \/ SafeValidateUploadOpts

IdleUploadFile ==
    [pc |-> "idle", target |-> 0, opts |-> Desc(Absent, Absent, Absent, Absent, Absent, Absent),
     sends |-> 0]

NoDisconnectCall == [pc |-> "idle", target |-> 0, wasConnected |-> FALSE, threw |-> FALSE]

\* a client's own Disconnect(), called by its owner; destroy() returns or
\* throws
ClientDisconnect ==
    /\ \E c \in Targets : \E throwing \in {{}, {c}} :
          /\ s3Client' = Disconnect(s3Client, c, throwing)
          /\ released' = [released EXCEPT ![c] = @ + Destroyed(s3Client, c, throwing)]
          /\ dcall' = [pc |-> "called", target |-> c, wasConnected |-> s3Client[c],
                        threw |-> DisconnectThrows(s3Client, c, throwing)]
    /\ UNCHANGED <<loggerReady, req, clients, up, received, disc, ex, uf, val, out, cfg, vd, conc>>

\* uploadFile(body, opts) { await this.upload(body, opts) } with
\* AWS3UploadClient.upload up to `await this.#s3Client!.send(command)`: the
\* key is built from opts as they are and the command is sent; send on a
\* null #s3Client is a TypeError
UploadFile ==
    /\ uf.pc = "idle"
    /\ \E c \in Targets, d \in DescriptorInputs :
          uf' = IF s3Client[c]
                THEN [pc |-> "sending", target |-> c, opts |-> d, sends |-> 1]
                ELSE [pc |-> "rejected", target |-> c, opts |-> d, sends |-> 0]
    /\ UNCHANGED <<loggerReady, req, clients, up, received, s3Client, disc, ex, val, out, released, dcall, cfg, vd, conc>>

\* send resolves: LoggerFactory.GetLogger().info(...) follows, which throws
\* when no logger exists
SendOk ==
    /\ uf.pc = "sending"
    /\ uf' = [uf EXCEPT !.pc = IF LogThrows(loggerReady) THEN "rejected" ELSE "fulfilled"]
    /\ UNCHANGED <<loggerReady, req, clients, up, received, s3Client, disc, ex, val, out, released, dcall, cfg, vd, conc>>

\* send rejects
SendFails ==
    /\ uf.pc = "sending"
    /\ uf' = [uf EXCEPT !.pc = "rejected"]
    /\ UNCHANGED <<loggerReady, req, clients, up, received, s3Client, disc, ex, val, out, released, dcall, cfg, vd, conc>>

NextUploadFile ==
    \/ CreateLogger
    \/ ClientDisconnect
    \/ UploadFile
    \/ SendOk
    \/ SendFails

(***************************************************************************)
(* ApiCollectorClient.request: the options object handed to axios          *)
(* (headers: src/src/api/apiCollectorClient.ts lines 157-167, the same in  *)
(* src/unnamed/part_003; body: src/unnamed/part_003 lines 51-71, the       *)
(* latest revision with a persistent auth body)                            *)
(***************************************************************************)
HeaderKeys == {"Content-Type", "Authorization", "X-Custom-Header"}
BodyKeys == {"token", "query"}

\* an object with string properties over the keys K: Absent marks a key the
\* object does not have
Objects(K, values) == [K -> values \cup {Absent}]

EmptyObject(K) == [k \in K |-> Absent]

\* an optional object-valued property of opts / authConfig: has = FALSE is a
\* property that is not there (undefined), which is not the same as {}
Property(has, obj) == [has |-> has, obj |-> obj]

OptionalObjects(K, values) ==
    {Property(FALSE, EmptyObject(K))} \cup {Property(TRUE, o) : o \in Objects(K, values)}

\* { ...a, ...b }: the keys of b win
Spread(a, b) == [k \in DOMAIN a |-> IF b[k] # Absent THEN b[k] ELSE a[k]]

\* ...x?.y: spreading undefined adds nothing
SpreadOptional(a, p) == IF p.has THEN Spread(a, p.obj) ELSE a

\* { "Content-Type": "application/json" }
DefaultHeaders == [k \in HeaderKeys |-> IF k = "Content-Type" THEN "application/json" ELSE Absent]

\* headers: { "Content-Type": ..., ...persistentHeaders, ...opts?.headers },
\* followed in the same literal by ...opts, whose own `headers` property,
\* when it is there, replaces the merged object
BuildHeaders(persistentHeaders, callHeaders) ==
    LET merged == SpreadOptional(Spread(DefaultHeaders, persistentHeaders), callHeaders)
    IN  IF callHeaders.has THEN callHeaders.obj ELSE merged

\* part_003: data: { ...opts?.data }, then ...opts (own `data` replaces it)
BuildDataBeforeAuth(callData) ==
    IF callData.has THEN callData.obj ELSE SpreadOptional(EmptyObject(BodyKeys), callData)

BuildDataNoAuthMerge(authBody, callData) == BuildDataBeforeAuth(callData)

\* part_003: if(authConfig.body) { options.data = { ...authConfig.body, ...options.data } }
BuildData(authBody, callData) ==
    IF authBody.has
    THEN Spread(authBody.obj, BuildDataBeforeAuth(callData))
    ELSE BuildDataBeforeAuth(callData)

NoOptions ==
    [pc |-> "idle", persistentHeaders |-> EmptyObject(HeaderKeys),
     authBody |-> Property(FALSE, EmptyObject(BodyKeys)),
     callHeaders |-> Property(FALSE, EmptyObject(HeaderKeys)),
     callData |-> Property(FALSE, EmptyObject(BodyKeys)),
     headers |-> EmptyObject(HeaderKeys), data |-> EmptyObject(BodyKeys)]

\* request(method, endpoint, opts) up to the call of the transport: the
\* options object is built once and every attempt sends it unchanged
BuildOptions ==
    /\ out.pc = "idle"
    /\ \E persistentHeaders \in Objects(HeaderKeys, {"persistent"}),
          authBody \in OptionalObjects(BodyKeys, {"persistent"}),
          callHeaders \in OptionalObjects(HeaderKeys, {"call"}),
          callData \in OptionalObjects(BodyKeys, {"call"}) :
          out' = [pc |-> "built", persistentHeaders |-> persistentHeaders,
                  authBody |-> authBody, callHeaders |-> callHeaders,
                  callData |-> callData,
                  headers |-> BuildHeaders(persistentHeaders, callHeaders),
                  data |-> BuildData(authBody, callData)]
    /\ UNCHANGED <<loggerReady, req, clients, up, received, s3Client, disc, ex, uf, val, released, dcall, cfg, vd, conc>>

NextOptions == BuildOptions

(***************************************************************************)
(* config/index.ts: buildConfig and getConfig                              *)
(***************************************************************************)
\* the source object handed to buildConfig: the variables zBaseConfig reads
\* that have no default or a checked value
Env(serviceName, serviceLocation, siteName) ==
    [SERVICE_NAME |-> serviceName, SERVICE_LOCATION |-> serviceLocation,
     SITE_NAME |-> siteName]

\* the sources tried: every variable unset, set to "" or set; the location
\* also set to a value outside the enum
EnvInputs ==
    {Env(sv, sl, sn) :
        sv \in {Absent, "", "svc"},
        sl \in ServiceLocation \cup {Absent, "", "moon"},
        sn \in {Absent, "", "lab"}}

\* normalizeEnv: v === "" ? undefined : v, for every variable
normalizeEnv(env) == [k \in DOMAIN env |-> IF env[k] = "" THEN Absent ELSE env[k]]

\* z.object of zBaseConfig: SERVICE_NAME is z.string().nonempty(),
\* SERVICE_LOCATION is z.enum(ServiceLocation).default("global"), SITE_NAME
\* is z.string().optional()
ConfigBaseIssues(e) ==
    (IF Truthy(e.SERVICE_NAME) THEN {} ELSE {Issue("SERVICE_NAME", "SERVICE_NAME")})
        \cup (IF e.SERVICE_LOCATION \in ServiceLocation \cup {Absent}
              THEN {} ELSE {Issue("SERVICE_LOCATION", "")})

\* the parsed object: .default("global") fills an unset location
WithDefaults(e) ==
    [e EXCEPT !.SERVICE_LOCATION = IF @ = Absent THEN "global" ELSE @]

\* superRefine: cfg.SERVICE_LOCATION === "site" && !cfg.SITE_NAME
ConfigRefineIssues(c) ==
    IF c.SERVICE_LOCATION = "site" /\ ~Truthy(c.SITE_NAME)
    THEN {Issue("SITE_NAME", "SITE_NAME")} ELSE {}

\* usedSchema.safeParse(normalized): the refinement runs on an object that
\* passed the base schema
ConfigSafeParse(e) ==
    IF ConfigBaseIssues(e) # {}
    THEN [success |-> FALSE, issues |-> ConfigBaseIssues(e), data |-> e]
    ELSE IF ConfigRefineIssues(WithDefaults(e)) # {}
         THEN [success |-> FALSE, issues |-> ConfigRefineIssues(WithDefaults(e)),
               data |-> e]
         ELSE [success |-> TRUE, issues |-> {}, data |-> WithDefaults(e)]

NoBuild == [pc |-> "none", env |-> Env(Absent, Absent, Absent), parsed |-> FALSE]

\* `let _config = null` in a process that is running
NoConfigState ==
    [built |-> FALSE, config |-> Env(Absent, Absent, Absent), exited |-> FALSE,
     code |-> 0, build |-> NoBuild, get |-> "none"]

\* buildConfig(env, schema): an existing configuration is returned as it is;
\* else the source is normalised and parsed, a failure is logged through
\* LoggerFactory.GetLogger() (which throws while no logger was created) and
\* then process.exit(1) is called; a success is frozen and stored
BuildConfig ==
    /\ ~cfg.exited
    /\ \E env \in EnvInputs :
          LET result == ConfigSafeParse(normalizeEnv(env))
          IN  IF cfg.built
              THEN cfg' = [cfg EXCEPT !.build = [pc |-> "returned", env |-> env,
                                                 parsed |-> FALSE]]
              ELSE IF ~result.success
                   THEN IF LogThrows(loggerReady)
                        THEN cfg' = [cfg EXCEPT !.build = [pc |-> "threw", env |-> env,
                                                           parsed |-> TRUE]]
                        ELSE cfg' = [cfg EXCEPT !.exited = TRUE, !.code = 1,
                                                !.build = [pc |-> "exited", env |-> env,
                                                           parsed |-> TRUE]]
                   ELSE cfg' = [cfg EXCEPT !.built = TRUE, !.config = result.data,
                                           !.build = [pc |-> "returned", env |-> env,
                                                      parsed |-> TRUE]]
    /\ UNCHANGED <<loggerReady, req, clients, up, received, s3Client, disc, ex, uf, val, out, released, dcall, vd, conc>>

\* getConfig(): throws while _config is null, else returns it
GetConfig ==
    /\ ~cfg.exited
    /\ cfg' = [cfg EXCEPT !.get = IF cfg.built THEN "returned" ELSE "threw"]
    /\ UNCHANGED <<loggerReady, req, clients, up, received, s3Client, disc, ex, uf, val, out, released, dcall, vd, conc>>

NextConfig ==
    \/ CreateLogger
    \/ BuildConfig
    \/ GetConfig

(***************************************************************************)
(* utils/util.ts: isValidData                                              *)
(***************************************************************************)
\* a JavaScript value: its kind, the characters of a string, the numeric
\* value of a number (as its literal), the elements of an array or the
\* property values of an object in key order
Datum(kind, chars, num, items) ==
    [kind |-> kind, chars |-> chars, num |-> num, items |-> items]

UndefinedDatum == Datum("undefined", <<>>, "", <<>>)
NullDatum == Datum("null", <<>>, "", <<>>)
StringDatum(chars) == Datum("string", chars, "", <<>>)
NumberDatum(num) == Datum("number", <<>>, num, <<>>)
BooleanDatum(b) == Datum("boolean", <<>>, b, <<>>)
ArrayDatum(items) == Datum("array", <<>>, "", items)
ObjectDatum(items) == Datum("object", <<>>, "", items)

\* the primitives tried: undefined, null, "", "  ", "ok", 0, 1, NaN, Infinity, true
PrimitiveInputs ==
    {UndefinedDatum, NullDatum, BooleanDatum("true")}
        \cup {StringDatum(c) : c \in {<<>>, <<" ", " ">>, <<"o", "k">>}}
        \cup {NumberDatum(n) : n \in {"0", "1", "NaN", "Infinity"}}

\* the values of one node: the primitives, [] and {}
SingleNodeInputs == PrimitiveInputs \cup {ArrayDatum(<<>>), ObjectDatum(<<>>)}

\* the nodes of a value
RECURSIVE Nodes(_)
Nodes(v) ==
    IF v.items = <<>>
    THEN 1
    ELSE Nodes(Head(v.items)) + Nodes([v EXCEPT !.items = Tail(@)])

\* the values one node larger than v: a value of one node added as the last
\* element (property) of v or of a last element below it.  Every array and
\* object is reached from its first node this way.
RECURSIVE Extensions(_)
Extensions(v) ==
    IF v.kind \notin {"array", "object"}
    THEN {}
    ELSE {[v EXCEPT !.items = Append(@, d)] : d \in SingleNodeInputs}
             \cup (IF v.items = <<>>
                   THEN {}
                   ELSE {[v EXCEPT !.items[Len(v.items)] = e] :
                            e \in Extensions(v.items[Len(v.items)])})

\* the arguments tried after the call recorded in c
DataInputs(c) ==
    IF c.pc = "idle"
    THEN SingleNodeInputs
    ELSE IF Nodes(c.data) < MaxNodes THEN Extensions(c.data) ELSE {}

\* typeof data
TypeOf(data) ==
    IF data.kind \in {"null", "array", "object"} THEN "object" ELSE data.kind

WhiteSpace == {" ", "\t", "\n"}

RECURSIVE TrimStart(_)
TrimStart(chars) ==
    IF chars # <<>> /\ Head(chars) \in WhiteSpace THEN TrimStart(Tail(chars)) ELSE chars

RECURSIVE TrimEnd(_)
TrimEnd(chars) ==
    IF chars # <<>> /\ chars[Len(chars)] \in WhiteSpace
    THEN TrimEnd(SubSeq(chars, 1, Len(chars) - 1))
    ELSE chars

\* String.prototype.trim
Trim(chars) == TrimEnd(TrimStart(chars))

NumberIsTruthy(num) == num \notin {"0", "NaN"}

\* Number.isFinite
NumberIsFinite(num) == num \notin {"NaN", "Infinity", "-Infinity"}

\* hasKeys: a non-null object that is not an array and has a key
hasKeys(value) ==
    /\ TypeOf(value) = "object"
    /\ value.kind # "null"
    /\ value.kind # "array"
    /\ Len(value.items) > 0

RECURSIVE isValidData(_)
isValidData(data) ==
    IF data.kind \in {"undefined", "null"}
    THEN FALSE
    ELSE CASE TypeOf(data) = "string" -> Len(Trim(data.chars)) > 0
           [] TypeOf(data) = "number" -> NumberIsFinite(data.num)
           [] TypeOf(data) = "object" ->
                  IF data.kind = "array"
                  THEN \E i \in 1..Len(data.items) : isValidData(data.items[i])
                  ELSE /\ hasKeys(data)
                       /\ \E i \in 1..Len(data.items) : isValidData(data.items[i])
           [] OTHER -> TRUE

NoCheck == [pc |-> "idle", data |-> UndefinedDatum, result |-> FALSE]

\* one call of isValidData
CheckData ==
    /\ \E data \in DataInputs(vd) :
          vd' = [pc |-> "returned", data |-> data, result |-> isValidData(data)]
    /\ UNCHANGED <<loggerReady, req, clients, up, received, s3Client, disc, ex, uf, val, out, released, dcall, cfg, conc>>

NextData == CheckData

(***************************************************************************)
(* ApiCollectorClient: several request calls in flight on one client       *)
(***************************************************************************)
Calls == 1..NumCalls

\* what the transport answers in this component: a success, a response that
\* is not a success, a network error, a client error
ConcurrentResolveStatuses == {200, 500}
ConcurrentRejectStatuses == {NoStatus, 404}
ConcurrentRetries == 2

\* the persistent headers a client is constructed with, and the headers of
\* the opts of one call
PersistentHeaderInputs ==
    {[k \in HeaderKeys |-> IF k = "Authorization" THEN v ELSE Absent] :
        v \in {"persistent", Absent}}
CallHeaderInputs ==
    {Property(FALSE, EmptyObject(HeaderKeys)),
     Property(TRUE, [k \in HeaderKeys |-> IF k = "X-Custom-Header" THEN "call" ELSE Absent])}

\* a call that has not been made: the locals of request / requestWithRetry
\* (options, attempt, lastError), the transport outcomes it has seen, and
\* whether another call was in its retry delay when it started
NoCall ==
    [r |-> IdleRequest, hist |-> <<>>, callHeaders |-> Property(FALSE, EmptyObject(HeaderKeys)),
     headers |-> EmptyObject(HeaderKeys), sawSleep |-> FALSE]

NoClient ==
    [created |-> FALSE, persistentHeaders |-> EmptyObject(HeaderKeys),
     initial |-> EmptyObject(HeaderKeys), calls |-> [i \in Calls |-> NoCall]]

LocalsSharedAttempt(cs, i) == [cs[i].r EXCEPT !.attempt = cs[1].r.attempt]

\* the loop state call i works on: `let lastError`, `let attempt` and
\* `const options` are declared inside the call
Locals(cs, i) == cs[i].r

\* constructor(baseUrl, persistentHeaders)
CreateClient ==
    /\ ~conc.created
    /\ \E persistentHeaders \in PersistentHeaderInputs :
          conc' = [conc EXCEPT !.created = TRUE,
                               !.persistentHeaders = persistentHeaders,
                               !.initial = persistentHeaders]
    /\ UNCHANGED <<loggerReady, req, clients, up, received, s3Client, disc, ex, uf, val, out, released, dcall, cfg, vd>>

\* call i: request(method, endpoint, opts) up to its first await
ConcurrentRequest ==
    /\ conc.created
    /\ \E i \in Calls, callHeaders \in CallHeaderInputs :
          /\ conc.calls[i].r.pc = "idle"
          /\ conc' = [conc EXCEPT !.calls[i] =
                        [r |-> LoopHead(NewRequest(FALSE, "nodes", ConcurrentRetries,
                                                   DEFAULT_DELAY_MS), loggerReady),
                         hist |-> <<>>,
                         callHeaders |-> callHeaders,
                         headers |-> BuildHeaders(conc.persistentHeaders, callHeaders),
                         sawSleep |-> \E j \in Calls : conc.calls[j].r.pc = "sleep"]]
    /\ UNCHANGED <<loggerReady, req, clients, up, received, s3Client, disc, ex, uf, val, out, released, dcall, cfg, vd>>

\* axios(config) of call i resolves
ConcurrentAxiosResolve ==
    /\ \E i \in Calls, status \in ConcurrentResolveStatuses :
          /\ conc.calls[i].r.pc = "axios"
          /\ conc' = [conc EXCEPT
                        !.calls[i].r = AfterResponse(Observe(Locals(conc.calls, i), "resolve",
                                                             status, FALSE),
                                                     loggerReady, status, 0),
                        !.calls[i].hist = Append(@, [kind |-> "resolve", status |-> status])]
    /\ UNCHANGED <<loggerReady, req, clients, up, received, s3Client, disc, ex, uf, val, out, released, dcall, cfg, vd>>

\* axios(config) of call i rejects
ConcurrentAxiosReject ==
    /\ \E i \in Calls, status \in ConcurrentRejectStatuses :
          /\ conc.calls[i].r.pc = "axios"
          /\ conc' = [conc EXCEPT
                        !.calls[i].r = AfterError(Observe(Locals(conc.calls, i), "reject",
                                                          status, Retryable(status)), status),
                        !.calls[i].hist = Append(@, [kind |-> "reject", status |-> status])]
    /\ UNCHANGED <<loggerReady, req, clients, up, received, s3Client, disc, ex, uf, val, out, released, dcall, cfg, vd>>

\* the backoff timer of call i fires
ConcurrentTimerFires ==
    /\ \E i \in Calls :
          /\ conc.calls[i].r.pc = "sleep"
          /\ conc' = [conc EXCEPT
                        !.calls[i].r = LoopHead([Locals(conc.calls, i) EXCEPT !.attempt = @ + 1],
                                                loggerReady)]
    /\ UNCHANGED <<loggerReady, req, clients, up, received, s3Client, disc, ex, uf, val, out, released, dcall, cfg, vd>>

NextConcurrent ==
    \/ CreateLogger
    \/ CreateClient
    \/ ConcurrentRequest
    \/ ConcurrentAxiosResolve
    \/ ConcurrentAxiosReject
    \/ ConcurrentTimerFires

(***************************************************************************)
(* Specifications                                                          *)
(***************************************************************************)
Init ==
    /\ loggerReady = FALSE
    /\ req = IdleRequest
    /\ clients = <<>>
    /\ up = IdleUpload
    /\ received = [t \in Targets |-> <<>>]
    /\ s3Client = [t \in Targets |-> TRUE]
    /\ disc = IdleDisconnect
    /\ ex = IdleExport
    /\ uf = IdleUploadFile
    /\ val = NoValidation
    /\ out = NoOptions
    /\ released = [t \in Targets |-> 0]
    /\ dcall = NoDisconnectCall
    /\ cfg = NoConfigState
    /\ vd = NoCheck
    /\ conc = NoClient

Next ==
    NextRequest \/ NextUpload \/ NextDisconnect \/ NextExport \/ NextValidate
        \/ NextUploadFile \/ NextOptions \/ NextConfig \/ NextData
        \/ NextConcurrent

Spec == Init /\ [][Next]_vars

\* the HTTP client alone
SpecRequest == Init /\ [][NextRequest]_vars

\* the upload collection alone
SpecUpload == Init /\ [][NextUpload]_vars

\* the collection's disconnect alone
SpecDisconnect == Init /\ [][NextDisconnect]_vars

\* the export pipeline alone
SpecExport == Init /\ [][NextExport]_vars

\* the descriptor schema alone
SpecValidate == Init /\ [][NextValidate]_vars

\* one client with several calls in flight
SpecConcurrent == Init /\ [][NextConcurrent]_vars

\* isValidData alone
SpecData == Init /\ [][NextData]_vars

\* the configuration singleton alone
SpecConfig == Init /\ [][NextConfig]_vars

\* a collection whose targets are disconnected by their owner
NextUploadDisconnected ==
    \/ CreateLogger
    \/ Push
    \/ ClientDisconnect
    \/ Upload
    \/ UploadFileOk
    \/ UploadFileFails

SpecUploadDisconnected == Init /\ [][NextUploadDisconnected]_vars

\* one upload client alone
SpecUploadFile == Init /\ [][NextUploadFile]_vars

\* the construction of the request options alone
SpecOptions == Init /\ [][NextOptions]_vars

(***************************************************************************)
(* Properties of request / requestAndParse (checked under SpecRequest)     *)
(***************************************************************************)
\* status in [200,300)
Is2xx(status) == status >= 200 /\ status < 300

\* a status that is present, below 500 and not 429
IsClientError(status) == status # NoStatus /\ status < 500 /\ status # 429

\* the call made at least one transport attempt and every attempt so far was
\* rejected with 429, a status >= 500 or no status
OnlyRetryableFailures == req.calls >= 1 /\ req.allRetryable

\* C1: for every maxAttempts >= 1, when the first transport attempt is
\* rejected with a status that is present, below 500 and not 429 (400, 404,
\* 401, 403, ...), the call has failed with that error after exactly one
\* transport attempt, without any backoff delay and without a second attempt.
C1_ClientErrorFailsAfterOneAttempt ==
    (req.retries >= 1 /\ req.first.kind = "reject" /\ IsClientError(req.first.status))
        => /\ req.pc = "done"
           /\ req.result.tag = "throw"
           /\ req.result.val = AxiosError(req.first.status, 1)
           /\ req.calls = 1
           /\ req.delays = <<>>

C1_Witness ==
    /\ req.pc = "done"
    /\ req.retries = MAX_RETRIES
    /\ req.first = [kind |-> "reject", status |-> 401]
    /\ req.calls = 1

\* C2: when a call has ended and every transport attempt it made was rejected
\* with 429, a status >= 500 or a network error, it made exactly maxAttempts
\* transport attempts (maxAttempts - 1 retries) and it failed.
C2_RetryableFailuresExhaustAllAttempts ==
    (req.pc = "done" /\ OnlyRetryableFailures)
        => /\ req.calls = req.retries
           /\ Len(req.delays) = req.retries - 1
           /\ req.result.tag = "throw"

C2_Witness ==
    /\ req.pc = "done"
    /\ OnlyRetryableFailures
    /\ req.retries = MAX_RETRIES
    /\ req.calls = MAX_RETRIES
    /\ req.first.status = 429

\* C3 as stated: for every retried attempt n (2 <= n <= maxAttempts) the delay
\* waited immediately before attempt n is baseDelay * 2^n.
C3_DelayBeforeAttemptIsTwoToTheN ==
    \A n \in 2..req.calls :
        /\ Len(req.delays) >= n - 1
        /\ req.delays[n - 1] = req.delayMs * 2^n

\* C3 amended: for every retried attempt n (2 <= n <= maxAttempts) the delay
\* waited immediately before attempt n is baseDelay * 2^(n-1): the exponent is
\* the number of the attempt that failed, not of the attempt that follows.
C3_DelayBeforeAttemptIsTwoToTheNMinusOne ==
    \A n \in 2..req.calls :
        /\ Len(req.delays) >= n - 1
        /\ req.delays[n - 1] = req.delayMs * 2^(n - 1)

C3_Witness ==
    /\ req.calls = 3
    /\ req.delayMs = DEFAULT_DELAY_MS
    /\ req.delays = <<2000, 4000>>

\* C4: after a failed attempt numbered `attempt` that is retryable (no status,
\* status >= 500 or 429) with attempt < maxAttempts the decision is RETRY, and
\* the delay is exactly baseDelay * 2^attempt: every delay of a call is twice
\* the previous one and nothing random is added.
C4_RetryDelayIsBaseTimesTwoToTheAttempt ==
    /\ (req.last.kind = "reject" /\ Retryable(req.last.status) /\ req.pc = "done")
           => req.attempt >= req.retries
    /\ req.pc = "sleep"
           => /\ req.attempt < req.retries
              /\ Len(req.delays) = req.attempt
              /\ req.delays[req.attempt] = req.delayMs * 2^req.attempt
    /\ \A i \in 2..Len(req.delays) : req.delays[i] = 2 * req.delays[i - 1]

C4_Witness ==
    /\ req.pc = "sleep"
    /\ req.attempt = 4
    /\ req.delayMs = INTERCEPTOR_DELAY_MS
    /\ req.delays = <<1000, 2000, 4000, 8000>>

\* C5: as soon as a transport attempt resolves with a status in [200,300) the
\* request has resolved with that very response and without error, and no
\* further transport attempt is made, whichever attempt produced the response
\* (for requestAndParse the response has been handed to the schema).
C5_SuccessResolvesWithTheResponse ==
    (req.last.kind = "resolve" /\ Is2xx(req.last.status))
        => /\ req.pc = "done"
           /\ req.calls = req.attempt
           /\ ~req.parse => req.result = Return(Response(req.last.status, req.attempt))
           /\ req.parse => req.result.val.kind \in {"parsed", "zodError"}

C5_Witness ==
    /\ req.pc = "done"
    /\ ~req.parse
    /\ req.result = Return(Response(200, 3))
    /\ req.calls = 3
    /\ req.retries = MAX_RETRIES

\* C6: whenever the transport hands request a response whose status is outside
\* [200,300), request fails with an InvalidAPIResponseError whose route is the
\* endpoint of the call and whose data is the HTTP status, for 4xx and 5xx
\* alike and on the last attempt as on an earlier one; the response is never
\* returned as a success.
C6_BadStatusRaisesInvalidResponse ==
    (req.last.kind = "resolve" /\ ~Is2xx(req.last.status))
        => /\ req.pc = "done"
           /\ req.result = Throw(InvalidAPIResponseError(req.endpoint, req.last.status))

C6_Witness ==
    /\ req.pc = "done"
    /\ req.last = [kind |-> "resolve", status |-> 500]
    /\ req.attempt = 2
    /\ req.retries = 2
    /\ req.endpoint = "nodes"
    /\ req.result.val.kind = "invalidApiResponse"

\* C7: when the retry loop is exhausted by network / 5xx / 429 failures, the
\* caller receives exactly the error object of the last transport attempt:
\* not another kind of error, not the error of an earlier attempt, not a
\* returned value.
C7_ExhaustionPropagatesLastError ==
    (req.pc = "done" /\ OnlyRetryableFailures)
        => req.result = Throw(AxiosError(req.last.status, req.calls))

C7_Witness ==
    /\ req.pc = "done"
    /\ OnlyRetryableFailures
    /\ req.calls = 3
    /\ req.lastError = AxiosError(503, 2)
    /\ req.result = Throw(AxiosError(NoStatus, 3))

\* C8: when request succeeds and the payload violates the schema,
\* requestAndParse fails with an InvalidAPIResponseError carrying the endpoint
\* and every validation issue; when the payload satisfies the schema it
\* returns the parsed payload.
C8_SchemaFailureRaisesInvalidResponse ==
    (req.parse /\ req.pc = "done" /\ req.last.kind = "resolve" /\ Is2xx(req.last.status))
        => IF req.issues = 0
           THEN req.result = Return(Parsed(req.attempt))
           ELSE req.result = Throw(Val("invalidApiResponse", NoStatus, 0, req.endpoint, req.issues))

(***************************************************************************)
(* Properties of CloudUploadClientCollection (checked under SpecUpload)    *)
(***************************************************************************)
\* C9: for every managed list and every combination of per-target outcomes,
\* upload never rejects, and it has resolved only when every per-target
\* upload has settled.
C9_UploadNeverRejects ==
    /\ up.pc # "rejected"
    /\ up.pc = "resolved" => \A i \in 1..Len(up.st) : up.st[i] # "pending"

\* C10: one upload(payload, descriptor) calls uploadFile exactly once per
\* managed entry (a client instance pushed k times is an entry k times), each
\* time with the payload and the descriptor of the upload, whatever the other
\* targets' uploads do: fail, succeed or stay pending.
C10_FanOutCallsEveryTargetOnce ==
    up.pc # "idle"
        => \A t \in Targets :
              received[t] = Repeat([data |-> up.data, opts |-> up.opts],
                                   Occurrences(up.managed, t))

C10_Witness ==
    /\ up.managed = <<1, 2>>
    /\ up.st = <<"caught", "fulfilled">>
    /\ up.pc = "resolved"
    /\ Len(received[1]) = 1
    /\ Len(received[2]) = 1

(***************************************************************************)
(* Properties of DisconnectClients (checked under SpecDisconnect)          *)
(***************************************************************************)
\* C11: DisconnectClients calls Disconnect on every managed target: when the
\* disconnect of one target fails, the disconnect of every remaining target
\* is still attempted.
C11_DisconnectReachesEveryTarget ==
    disc.pc # "idle" => disc.called = disc.snap

(***************************************************************************)
(* Properties of exportData (checked under SpecExport)                     *)
(***************************************************************************)
\* the indices of the entries of the exportData call
ExportEntries == 1..Len(ex.entries)

\* the number of times the write or upload of entry i was started
Started(i) == Len(ex.uploads[i]) + ex.writes[i]

\* some entry of the call failed: its serialization threw, or its write or
\* upload was started and failed
EntryFailed(i) ==
    \/ ex.visited >= i /\ IsValidData(ex.entries[i]) /\ SerializeThrows(ex.entries[i])
    \/ ex.op[i] = "failed"

\* C12: exportData resolves only after the write or upload of every
\* non-empty entry has settled: at the moment it resolves no entry's upload
\* or file write is still in flight.
C12_ExportResolvesAfterEveryEntrySettled ==
    ex.pc = "resolved" => \A i \in ExportEntries : ex.op[i] # "inflight"

\* C13: a failure while serializing, writing or uploading one entry never
\* makes exportData reject and never prevents the write or upload of a
\* sibling: every other non-empty entry is still written or uploaded exactly
\* once.
C13_EntryFailureIsIsolated ==
    (ex.hasLogger /\ \E i \in ExportEntries : EntryFailed(i))
        => /\ ex.pc # "rejected"
           /\ \A j \in ExportEntries :
                 (IsValidData(ex.entries[j]) /\ ~EntryFailed(j)) => Started(j) = 1

\* C14: every entry whose value is empty per isValidData is skipped: exactly
\* one warning is logged for it, no file write and no upload happens for it,
\* the batch does not fail, and all non-empty entries are still processed.
C14_EmptyEntriesAreSkippedWithOneWarning ==
    (ex.hasLogger /\ \E i \in ExportEntries : ~IsValidData(ex.entries[i]))
        => /\ \A i \in ExportEntries :
                 ~IsValidData(ex.entries[i])
                     => ex.warns[i] = 1 /\ Started(i) = 0 /\ ex.op[i] = "none"
           /\ ex.pc # "rejected"
           /\ \A j \in ExportEntries : IsValidData(ex.entries[j]) => Started(j) = 1

\* C15: routing depends only on the environment: in production each
\* non-empty entry causes exactly one collection.upload call whose descriptor
\* is the given upload options with dataSourceName set to the entry's name,
\* and no local file write; in every other environment each non-empty entry
\* causes exactly one local file write and collection.upload is never called.
C15_RoutingDependsOnlyOnEnvironment ==
    ex.hasLogger
        => \A i \in ExportEntries :
              IsValidData(ex.entries[i])
                  => IF IsProduction(ex.env)
                     THEN /\ ex.uploads[i] = <<WithDataSourceName(ex.opts, SourceNames[i])>>
                          /\ ex.writes[i] = 0
                     ELSE /\ ex.writes[i] = 1
                          /\ ex.uploads[i] = <<>>

(***************************************************************************)
(* Properties of the upload descriptor (checked under SpecUploadFile and   *)
(* SpecValidate)                                                           *)
(***************************************************************************)
\* the descriptor violates the schema zCloudUploadClientOpts
ViolatesSchema(d) == BaseIssues(d) # {} \/ RefineIssues(d) # {}

\* C16: uploadFile validates the upload descriptor before delegating to the
\* provider-specific upload: for every descriptor that violates the
\* descriptor invariants, uploadFile fails and no provider call (S3 send) is
\* made for it.
C16_InvalidDescriptorIsNeverSent ==
    (uf.pc # "idle" /\ ViolatesSchema(uf.opts))
        => uf.pc = "rejected" /\ uf.sends = 0

C18_FilePathAloneIsValid ==
    (val.pc = "returned" /\ Truthy(val.opts.filePath)) => val.success

(***************************************************************************)
(* Properties of the request options (checked under SpecOptions)           *)
(***************************************************************************)
\* C19: the outgoing headers are Content-Type: application/json overlaid with
\* the persistent auth headers overlaid with the per-call header overrides:
\* on a key collision the per-call value wins, and every default or
\* persistent header the call does not override is still present, also when
\* the call passes its own headers.
C19_HeadersAreDefaultsPersistentThenCall ==
    out.pc = "built"
        => \A k \in HeaderKeys :
              out.headers[k] =
                  IF out.callHeaders.has /\ out.callHeaders.obj[k] # Absent
                  THEN out.callHeaders.obj[k]
                  ELSE IF out.persistentHeaders[k] # Absent
                       THEN out.persistentHeaders[k]
                       ELSE DefaultHeaders[k]

C21_LoggerFailureNeverAbortsRequest ==
    (req.pc = "done" /\ req.retries >= 1)
        => /\ req.calls >= 1
           /\ req.result.val # LoggerTypeError


C23_DisconnectedTargetFailsAndIsLogged ==
    /\ [][\A t \in Targets : (~s3Client[t]) => ~s3Client'[t]]_vars
    /\ [](\A i \in 1..Len(up.st) :
             (~up.conn[i])
                 => /\ up.st[i] \in {"pending", "caught"}
                    /\ up.pc # "rejected")


(***************************************************************************)
(* Properties of the configuration (checked under SpecConfig)              *)
(***************************************************************************)
\* C24: getConfig does not return while no configuration is stored; a stored
\* configuration is the parsed result of a source that passed validation;
\* and once a buildConfig call has parsed a source that fails validation,
\* the process has exited with a non-zero status and nothing is stored.
C24_FailedValidationExitsTheProcess ==
    /\ (~cfg.built) => cfg.get # "returned"
    /\ cfg.built =>
          \E env \in EnvInputs :
              /\ ConfigSafeParse(normalizeEnv(env)).success
              /\ cfg.config = ConfigSafeParse(normalizeEnv(env)).data
    /\ (cfg.build.parsed /\ ~ConfigSafeParse(normalizeEnv(cfg.build.env)).success)
          => /\ cfg.exited
             /\ cfg.code # 0
             /\ ~cfg.built


(***************************************************************************)
(* Properties of isValidData (checked under SpecData)                      *)
(***************************************************************************)
\* the values the reference predicate is stated for: undefined, null,
\* strings, numbers, and arrays and objects of such values
RECURSIVE JsonLike(_)
JsonLike(v) ==
    /\ v.kind \in {"undefined", "null", "string", "number", "array", "object"}
    /\ \A i \in 1..Len(v.items) : JsonLike(v.items[i])

\* the reference predicate
RECURSIVE Reference(_)
Reference(v) ==
    CASE v.kind \in {"undefined", "null"} -> FALSE
      [] v.kind = "string" -> \E i \in 1..Len(v.chars) : v.chars[i] \notin WhiteSpace
      [] v.kind = "number" -> v.num \in {"0", "1"}
      [] v.kind \in {"array", "object"} -> \E i \in 1..Len(v.items) : Reference(v.items[i])

\* C25: for every value of at most MaxNodes nodes built of undefined, null,
\* strings, numbers, arrays and objects, isValidData returns what the
\* reference predicate gives: false for null and undefined, non-blank for a
\* string, finite for a number, and some true element or property value for
\* an array or an object.
C25_IsValidDataEqualsReference ==
    (vd.pc = "returned" /\ JsonLike(vd.data)) => (vd.result = Reference(vd.data))

\* [null, {a: 1}] was checked and found valid
C25_Witness ==
    /\ vd.pc = "returned"
    /\ vd.data = ArrayDatum(<<NullDatum, ObjectDatum(<<NumberDatum("1")>>)>>)
    /\ vd.result


(***************************************************************************)
(* The retry state of a request (checked under SpecRequest)                *)
(***************************************************************************)
\* C26: while and after a request call made with retries >= 1, the attempt
\* counter stays between 1 and retries, and the call has made at most
\* retries transport attempts, whatever the transport answered.
C26_AttemptStaysWithinRetries ==
    (req.pc # "idle" /\ req.retries >= 1)
        => /\ 1 <= req.attempt
           /\ req.attempt <= req.retries
           /\ req.calls <= req.retries

\* a call that used all of its attempts, the last one after two retries
C26_Witness ==
    /\ req.pc = "done"
    /\ req.retries >= 3
    /\ req.attempt = req.retries
    /\ req.calls = req.retries
    /\ req.last.kind = "reject"


\* C28: a request call that made transport attempts and has ended emitted
\* one line per attempt, in order, each retry's line carrying its attempt
\* number, followed by exactly one line for the terminal outcome, whether
\* the call returned a response or failed.
C28_OneLinePerAttemptAndOneTerminalLine ==
    (req.pc = "done" /\ req.calls >= 1 /\ req.result.val # LoggerTypeError)
        => /\ Len(req.lines) = req.calls + 1
           /\ \A n \in 1..req.calls : req.lines[n] = AttemptLine(n)
           /\ req.lines[Len(req.lines)].kind = "final"

C29_UploadDispatchesToTargetsAtCallTime ==
    /\ [](up.pc # "idle"
             => /\ up.snap = up.managed
                /\ \A t \in Targets : Len(received[t]) = Occurrences(up.managed, t))
    /\ [][Len(clients') < Len(clients)
             => \E c \in Targets :
                   /\ Occurrences(clients, c) > 0
                   /\ Occurrences(clients', c) = 0
                   /\ Len(clients') = Len(clients) - Occurrences(clients, c)
                   /\ \A t \in Targets \ {c} :
                         Occurrences(clients', t) = Occurrences(clients, t)]_vars

\* an upload to <<1, 2>> is in flight; since it was called, 1 was removed and
\* 2 pushed again, and each of 1 and 2 has received one call
C29_Witness ==
    /\ up.pc = "pending"
    /\ up.managed = <<1, 2>>
    /\ clients = <<2, 2>>
    /\ Len(received[1]) = 1
    /\ Len(received[2]) = 1


(***************************************************************************)
(* Concurrent request calls (checked under SpecConcurrent)                 *)
(***************************************************************************)
\* one call running alone with a working logger, after the transport
\* outcomes hist: the state right after the last of them
RECURSIVE Alone(_, _)
Alone(r, hist) ==
    IF hist = <<>>
    THEN r
    ELSE LET at == IF r.pc = "sleep" THEN LoopHead([r EXCEPT !.attempt = @ + 1], TRUE) ELSE r
             o == Head(hist)
             next == IF o.kind = "resolve"
                     THEN AfterResponse(Observe(at, "resolve", o.status, FALSE),
                                        TRUE, o.status, 0)
                     ELSE AfterError(Observe(at, "reject", o.status, Retryable(o.status)),
                                     o.status)
         IN  Alone(next, Tail(hist))

AloneFromStart(hist) ==
    Alone(LoopHead(NewRequest(FALSE, "nodes", ConcurrentRetries, DEFAULT_DELAY_MS), TRUE), hist)

\* C27: under every interleaving of the calls in flight on one client, each
\* call that reached the transport is where it would be had it run alone
\* with its own transport outcomes (same number of attempts, same retry
\* state, same result; at most its backoff timer has fired since), its
\* options hold the headers merged from the client's persistent headers and
\* its own opts, and the client's persistent headers are the ones it was
\* constructed with.
C27_ConcurrentCallsAreIndependent ==
    /\ conc.persistentHeaders = conc.initial
    /\ \A i \in Calls :
          LET c == conc.calls[i]
              alone == AloneFromStart(c.hist)
          IN  c.r.calls >= 1
                 => /\ \/ c.r = alone
                       \/ /\ alone.pc = "sleep"
                          /\ c.r = LoopHead([alone EXCEPT !.attempt = @ + 1], TRUE)
                    /\ c.headers = BuildHeaders(conc.initial, c.callHeaders)

\* call 1 is suspended in its retry delay, and call 2, started during such a
\* delay, has retried and completed with a response
C27_Witness ==
    /\ conc.calls[1].r.pc = "sleep"
    /\ conc.calls[2].sawSleep
    /\ conc.calls[2].r.pc = "done"
    /\ conc.calls[2].r.calls = 2
    /\ conc.calls[2].r.result = Return(Response(200, 2))

====
